---- MODULE Spec2Model ----
(***************************************************************************)
(* A model of comfy_trt: the engine registry (model_manager.py,            *)
(* ModelManager), the shape-compatibility matcher (ModelConfig) and the    *)
(* weight refit of a compiled engine (utilities.py, Engine).               *)
(*                                                                         *)
(* Conventions                                                             *)
(*  - a Python dict is a sequence of [k, v] pairs with distinct keys, in   *)
(*    insertion order (dicts iterate in insertion order);                  *)
(*  - a Python str that the code builds by concatenation or tests by       *)
(*    suffix/prefix is a sequence of tokens, so "a" + "_TRTKERNEL" is      *)
(*    <<"a">> \o <<"_TRTKERNEL">>;                                         *)
(*  - a raised exception is the string naming it, "none" when the call     *)
(*    returned;                                                            *)
(*  - distances are kept times four (the code's weights are 1, 0.5 and     *)
(*    0.25), so that they stay integers.                                   *)
(***************************************************************************)
EXTENDS Integers, Sequences, FiniteSets, TLC

VARIABLES
    \* ---- ModelManager (model_manager.py)
    all_models,     \* self.all_models: dict cc -> dict base model -> list of entries
    model_file,     \* content of MODEL_FILE (model.json) as last written
    trt_dir,        \* the files of TRT_MODEL_DIR, model.json aside
    cc,             \* self.cc
    alive,          \* a ModelManager was constructed and is in use
    last_call,      \* the method the last step called
    last_arg,       \* its first argument (a model name), "" when it has none
    raised,         \* the exception that call raised, "none" if it returned
    returned,       \* what the last query returned: [valid_models, distances]
    \* ---- ModelConfig under test (matcher)
    config,         \* the ModelConfig queried
    query,          \* the arguments of the last matcher call
    answer,         \* its return value
    \* ---- Engine refit (utilities.py)
    all_weights,    \* refitter.get_all() of self.engine: [layer_name, role] in order
    refit_call,     \* the refit method called, "none" before a call
    refit_args,     \* its arguments
    refit_phase,    \* the part of the method reached: where it raised, or its last
    refit_raised,   \* the exception the call raised, "none" if it returned
    refit_dict,     \* the weight-update set the call built or was given
    logged,         \* the logging.error records of the call
    saved,          \* the dict handed to st_save_file
    pushed,         \* the refitter.set_weights calls, in order
    warned,         \* the layers reported "[W] No refit weights for layer"
    committed,      \* refitter.refit_cuda_engine(): "no" (not called), "ok", "failed"
    \* ---- Engine runtime (utilities.py)
    engine_file,    \* the io tensors of the engine stored at self.engine_path, in order
    engine,         \* self.engine
    context,        \* self.context
    tensors,        \* self.tensors: dict binding -> tensor, in insertion order
    life_call,      \* the runtime method the last step called, "none" before a call
    life_raised,    \* the exception that call raised, "none" if it returned
    life_done,      \* the runtime methods that have returned so far
    dispatched      \* the last call reached context.execute_async_v3(stream)

reg_vars == <<all_models, model_file, trt_dir, cc, alive, last_call, last_arg, raised, returned>>
match_vars == <<config, query, answer>>
refit_vars == <<all_weights, refit_call, refit_args, refit_phase, refit_raised, refit_dict,
                logged, saved, pushed, warned, committed>>
life_vars == <<engine_file, engine, context, tensors, life_call, life_raised, life_done,
               dispatched>>
vars == <<reg_vars, match_vars, refit_vars, life_vars>>

(***************************************************************************)
(* Bounds                                                                  *)
(***************************************************************************)
MaxEntries == 2     \* longest entry list add_entry grows in the model
MaxDim == 1         \* largest dimension value of the enumerated profiles
MaxNodes == 2       \* most nodes of an enumerated graph

(***************************************************************************)
(* Python dict and list helpers                                            *)
(***************************************************************************)
DictHas(d, key) == \E i \in 1..Len(d) : d[i].k = key

DictIdx(d, key) == CHOOSE i \in 1..Len(d) : d[i].k = key

DictGet(d, key) == d[DictIdx(d, key)].v

\* d[key] = val: in place when the key exists, appended otherwise
DictSet(d, key, val) ==
    IF DictHas(d, key)
    THEN [d EXCEPT ![DictIdx(d, key)].v = val]
    ELSE Append(d, [k |-> key, v |-> val])

\* d.pop(key)
DictPop(d, key) == SelectSeq(d, LAMBDA e : e.k # key)

\* d.get(key, {})
DictGetOrEmpty(d, key) == IF DictHas(d, key) THEN DictGet(d, key) ELSE <<>>

RECURSIVE SumSeq(_)
SumSeq(s) == IF s = <<>> THEN 0 ELSE Head(s) + SumSeq(Tail(s))

Abs(x) == IF x < 0 THEN -x ELSE x

(***************************************************************************)
(* ModelConfig: the matcher                                                *)
(***************************************************************************)
\* add_lora_entry's profile, [[], [], []]: a list, not a dict (a record with the one
\* field "list", so that it compares with the dict profiles, which are records)
LoraProfile == [list |-> << <<>>, <<>>, <<>> >>]

\* a profile that supports profile["sample"]: a dict input name -> [min, opt, max]
IsDictProfile(p) == "list" \notin DOMAIN p

\* width //= 8, height //= 8
FloorDiv8(x) == x \div 8

\* the rejection test of is_compatible on the derived values
ScalarRejectedMut(_min, _max, _min_em, _max_em, batch_size, height, width, max_embedding) ==
    \/ _min[1] >= batch_size \/ _max[1] <= batch_size
    \/ _min[3] >= height \/ _max[3] <= height
    \/ _min[4] >= width \/ _max[4] <= width
    \/ _min_em[2] >= max_embedding \/ _max_em[2] <= max_embedding

ScalarRejected(_min, _max, _min_em, _max_em, batch_size, height, width, max_embedding) ==
    \/ _min[1] > batch_size \/ _max[1] < batch_size
    \/ _min[3] > height \/ _max[3] < height
    \/ _min[4] > width \/ _max[4] < width
    \/ _min_em[2] > max_embedding \/ _max_em[2] < max_embedding

\* the distance of is_compatible, times four
ScalarDistanceMut(_opt, _max, batch_size, height, width) ==
      4 * Abs(_opt[1] - batch_size)
    + 4 * Abs(_opt[3] - height)
    + 4 * Abs(_opt[4] - width)

ScalarDistance(_opt, _max, batch_size, height, width) ==
      4 * Abs(_opt[1] - batch_size)
    + 4 * Abs(_opt[3] - height)
    + 4 * Abs(_opt[4] - width)
    + 2 * (Abs(_max[3] - height) + Abs(_max[4] - width))

\* ModelConfig.is_compatible(width, height, batch_size, max_embedding)
is_compatible(self, width, height, batch_size, max_embedding) ==
    IF ~IsDictProfile(self.profile)
    THEN [raised |-> "TypeError", valid |-> FALSE, distance_x4 |-> 0]
    ELSE
    LET sample == self.profile.sample
        embedding == self.profile.encoder_hidden_states
        b == batch_size * 2
        w == FloorDiv8(width)
        h == FloorDiv8(height)
    IN  IF ScalarRejected(sample[1], sample[3], embedding[1], embedding[3], b, h, w, max_embedding)
        THEN [raised |-> "none", valid |-> FALSE, distance_x4 |-> 0]
        ELSE [raised |-> "none", valid |-> TRUE,
              distance_x4 |-> ScalarDistance(sample[2], sample[3], b, h, w)]

\* one input of is_compatible_from_dict: r_min = max - v, r_opt = |opt - v|, r_max = v - min
TensorRejected(_min, _max, v) ==
    \/ \E i \in 1..Len(v) : _max[i] - v[i] < 0
    \/ \E i \in 1..Len(v) : v[i] - _min[i] < 0

\* r_opt.sum() + 0.5 * (r_max.sum() + 0.5 * r_min.sum()), times four
TensorDistance(_min, _opt, _max, v) ==
      4 * SumSeq([i \in 1..Len(v) |-> Abs(_opt[i] - v[i])])
    + 2 * SumSeq([i \in 1..Len(v) |-> v[i] - _min[i]])
    + SumSeq([i \in 1..Len(v) |-> _max[i] - v[i]])

\* the loop of is_compatible_from_dict from item i on, distance accumulated so far
RECURSIVE FromDictLoop(_, _, _, _)
FromDictLoop(self, feed_dict, i, distance) ==
    IF i > Len(feed_dict)
    THEN [raised |-> "none", valid |-> TRUE, distance_x4 |-> distance]
    ELSE
    LET k == feed_dict[i].k
        v == feed_dict[i].v
    IN  IF ~IsDictProfile(self.profile)
        THEN [raised |-> "TypeError", valid |-> FALSE, distance_x4 |-> distance]
        ELSE IF k \notin DOMAIN self.profile
        THEN [raised |-> "KeyError", valid |-> FALSE, distance_x4 |-> distance]
        ELSE LET p == self.profile[k]
             IN  IF TensorRejected(p[1], p[3], v)
                 THEN [raised |-> "none", valid |-> FALSE, distance_x4 |-> distance]
                 ELSE FromDictLoop(self, feed_dict, i + 1,
                                   distance + TensorDistance(p[1], p[2], p[3], v))

\* ModelConfig.is_compatible_from_dict(feed_dict); feed_dict maps a name to a shape
is_compatible_from_dict(self, feed_dict) == FromDictLoop(self, feed_dict, 1, 0)

(***************************************************************************)
(* Engine: refit                                                           *)
(*                                                                         *)
(* A tensor is [name, const, values]: a gs.Constant has const = TRUE and   *)
(* values [dtype, ndim, data]; a gs.Variable has const = FALSE.  A node is *)
(* [op, name, inputs, outputs].  A graph is the list of its nodes as       *)
(* toposort() leaves them.                                                 *)
(***************************************************************************)
\* Python's None as a value of refit_dict
None == [dtype |-> "None", ndim |-> 0, data |-> 0]

\* change_trt_layer_name(layer_name, role)
change_trt_layer_name(layer_name, role) ==
    CASE role = "KERNEL" -> layer_name \o <<"_TRTKERNEL">>
      [] role = "BIAS" -> layer_name \o <<"_TRTBIAS">>
      [] OTHER -> layer_name

\* layer_name.startswith("onnx::Trilu")
StartsWithTrilu(layer_name) == Len(layer_name) > 0 /\ layer_name[1] = "onnx::Trilu"

\* refit, line 103: assert node.op == refit_node.op
OpsAgreeMut(node, refit_node) == TRUE

OpsAgree(node, refit_node) == node.op = refit_node.op

\* refit, lines 115-117: the loop over enumerate(node.inputs) from position i on
RECURSIVE MapOtherInputs(_, _, _, _)
MapOtherInputs(node, refit_node, i, name_map) ==
    IF i > Len(node.inputs) THEN [name_map |-> name_map, raised |-> "none"]
    ELSE IF ~node.inputs[i].const
    THEN MapOtherInputs(node, refit_node, i + 1, name_map)
    ELSE IF i > Len(refit_node.inputs)
    THEN [name_map |-> name_map, raised |-> "IndexError"]
    ELSE MapOtherInputs(node, refit_node, i + 1,
                        DictSet(name_map, refit_node.inputs[i].name, node.inputs[i].name))

\* refit, lines 104-117: what one aligned pair of nodes adds to name_map
MapNode(node, refit_node, name_map) ==
    IF node.op = "Constant"
    THEN [name_map |-> DictSet(name_map, refit_node.outputs[1].name, node.outputs[1].name),
          raised |-> "none"]
    ELSE IF node.op = "Conv"
    THEN IF Len(node.inputs) < 3
         THEN [name_map |-> name_map, raised |-> "IndexError"]
         ELSE LET m1 == IF node.inputs[2].const
                        THEN DictSet(name_map, refit_node.name \o <<"_TRTKERNEL">>,
                                     node.name \o <<"_TRTKERNEL">>)
                        ELSE name_map
                  m2 == IF node.inputs[3].const
                        THEN DictSet(m1, refit_node.name \o <<"_TRTBIAS">>,
                                     node.name \o <<"_TRTBIAS">>)
                        ELSE m1
              IN  [name_map |-> m2, raised |-> "none"]
    ELSE MapOtherInputs(node, refit_node, 1, name_map)

\* refit, lines 100-117: the loop over the original graph's nodes from position n on
RECURSIVE BuildNameMap(_, _, _, _)
BuildNameMap(nodes, refit_nodes, n, name_map) ==
    IF n > Len(nodes) THEN [name_map |-> name_map, raised |-> "none"]
    ELSE IF n > Len(refit_nodes)
    THEN [name_map |-> name_map, raised |-> "IndexError"]
    ELSE IF ~OpsAgree(nodes[n], refit_nodes[n])
    THEN [name_map |-> name_map, raised |-> "AssertionError"]
    ELSE LET r == MapNode(nodes[n], refit_nodes[n], name_map)
         IN  IF r.raised # "none" THEN r
             ELSE BuildNameMap(nodes, refit_nodes, n + 1, r.name_map)

\* map_name(name)
map_nameMut(name_map, name) == name

map_name(name_map, name) == IF DictHas(name_map, name) THEN DictGet(name_map, name) ELSE name

\* refit, lines 126-129: refit_dict[name] = None for every pair of all_weights from n on
RECURSIVE InitRefitDict(_, _, _)
InitRefitDict(weights, n, d) ==
    IF n > Len(weights) THEN [refit_dict |-> d, raised |-> "none"]
    ELSE LET name == change_trt_layer_name(weights[n].layer_name, weights[n].role)
         IN  IF DictHas(d, name)
             THEN [refit_dict |-> d, raised |-> "AssertionError"]
             ELSE InitRefitDict(weights, n + 1, DictSet(d, name, None))

\* add_to_map, lines 134-135: np.int32(values) for a 0-dimensional int64
Narrow(values) ==
    IF values.dtype = "int64" /\ values.ndim = 0
    THEN [values EXCEPT !.dtype = "int32"]
    ELSE values

\* add_to_map(name, values)
add_to_map(d, name, values) ==
    IF ~DictHas(d, name) THEN [refit_dict |-> d, raised |-> "none"]
    ELSE IF DictGet(d, name) # None
    THEN [refit_dict |-> d, raised |-> "AssertionError"]
    ELSE [refit_dict |-> DictSet(d, name, Narrow(values)), raised |-> "none"]

\* try: add_to_map(name, values) / except: logging.error(...)
TryAddToMap(st, name, values, what) ==
    LET r == add_to_map(st.refit_dict, name, values)
    IN  IF r.raised # "none"
        THEN [st EXCEPT !.logged = Append(@, <<what, name>>)]
        ELSE [st EXCEPT !.refit_dict = r.refit_dict]

\* refit, lines 166-169: the loop over n.inputs from position i on
RECURSIVE AddOtherInputs(_, _, _, _)
AddOtherInputs(node, i, name_map, st) ==
    IF i > Len(node.inputs) THEN st
    ELSE IF ~node.inputs[i].const THEN AddOtherInputs(node, i + 1, name_map, st)
    ELSE LET r == add_to_map(st.refit_dict, map_name(name_map, node.inputs[i].name),
                             node.inputs[i].values)
         IN  IF r.raised # "none" THEN [st EXCEPT !.raised = r.raised]
             ELSE AddOtherInputs(node, i + 1, name_map, [st EXCEPT !.refit_dict = r.refit_dict])

\* refit, lines 139-169: what one node of the refit graph adds to refit_dict
AddNode(node, name_map, st) ==
    IF node.op = "Constant"
    THEN TryAddToMap(st, map_name(name_map, node.outputs[1].name), node.outputs[1].values,
                     "Failed to add Constant")
    ELSE IF node.op = "Conv"
    THEN IF Len(node.inputs) < 2 THEN [st EXCEPT !.raised = "IndexError"]
         ELSE LET s1 == IF node.inputs[2].const
                        THEN TryAddToMap(st, map_name(name_map, node.name \o <<"_TRTKERNEL">>),
                                         node.inputs[2].values, "Failed to add Conv")
                        ELSE st
              IN  IF Len(node.inputs) < 3 THEN [s1 EXCEPT !.raised = "IndexError"]
                  ELSE IF node.inputs[3].const
                  THEN TryAddToMap(s1, map_name(name_map, node.name \o <<"_TRTBIAS">>),
                                   node.inputs[3].values, "Failed to add Conv")
                  ELSE s1
    ELSE AddOtherInputs(node, 1, name_map, st)

\* refit, lines 138-169: the loop over refit_nodes from position n on;
\* st is [refit_dict, logged, raised]
RECURSIVE BuildRefitDict(_, _, _, _)
BuildRefitDict(refit_nodes, n, name_map, st) ==
    IF n > Len(refit_nodes) THEN st
    ELSE LET s1 == AddNode(refit_nodes[n], name_map, st)
         IN  IF s1.raised # "none" THEN s1
             ELSE BuildRefitDict(refit_nodes, n + 1, name_map, s1)

\* the loop of lines 176-186 (refit), 198-208 (refit_from_dump) and 219-228
\* (refit_from_dict) over the pairs of all_weights from n on; by_membership tells the
\* test of refit_from_dict (custom_name in refit_dict) from the test of the other two
\* (refit_dict[custom_name] is not None); st is [pushed, warned, raised]
RECURSIVE ApplyLoop(_, _, _, _, _)
ApplyLoop(weights, n, d, by_membership, st) ==
    IF n > Len(weights) THEN st
    ELSE
    LET layer_name == weights[n].layer_name
        weights_role == weights[n].role
        custom_name == change_trt_layer_name(layer_name, weights_role)
        push == [st EXCEPT !.pushed = Append(@, [layer_name |-> layer_name, role |-> weights_role,
                                                 values |-> DictGet(d, custom_name)])]
    IN  IF StartsWithTrilu(layer_name) THEN ApplyLoop(weights, n + 1, d, by_membership, st)
        ELSE IF by_membership
        THEN ApplyLoop(weights, n + 1, d, by_membership,
                       IF DictHas(d, custom_name) THEN push ELSE st)
        ELSE IF ~DictHas(d, custom_name) THEN [st EXCEPT !.raised = "KeyError"]
        ELSE ApplyLoop(weights, n + 1, d, by_membership,
                       IF DictGet(d, custom_name) # None THEN push
                       ELSE [st EXCEPT !.warned = Append(@, layer_name)])

NoSave == [called |-> FALSE, tensors |-> <<>>]

\* the end of a call: the loop over all_weights, then refit_cuda_engine(), exit(0)
\* when it reports failure; out carries what the call did before
ApplyAndCommit(weights, d, by_membership, commit_ok, out) ==
    LET a == ApplyLoop(weights, 1, d, by_membership,
                       [pushed |-> <<>>, warned |-> <<>>, raised |-> "none"])
    IN  IF a.raised # "none"
        THEN [out EXCEPT !.phase = "apply", !.raised = a.raised,
                         !.pushed = a.pushed, !.warned = a.warned]
        ELSE [out EXCEPT !.phase = "commit", !.pushed = a.pushed, !.warned = a.warned,
                         !.committed = IF commit_ok THEN "ok" ELSE "failed",
                         !.raised = IF commit_ok THEN "none" ELSE "SystemExit"]

NoOutcome ==
    [phase |-> "none", raised |-> "none", refit_dict |-> <<>>, logged |-> <<>>,
     saved |-> NoSave, pushed |-> <<>>, warned |-> <<>>, committed |-> "no"]

\* Engine.refit(onnx_path, onnx_refit_path, dump_refit_path): the two paths are given by
\* the sorted node lists they load, dump says whether dump_refit_path is not None, and
\* commit_ok is what refit_cuda_engine() would answer
refit(weights, nodes, refit_nodes, dump, commit_ok) ==
    LET m == BuildNameMap(nodes, refit_nodes, 1, <<>>)
        i == InitRefitDict(weights, 1, <<>>)
        b == BuildRefitDict(refit_nodes, 1, m.name_map,
                            [refit_dict |-> i.refit_dict, logged |-> <<>>, raised |-> "none"])
        built == [NoOutcome EXCEPT !.refit_dict = b.refit_dict, !.logged = b.logged]
    IN  IF m.raised # "none"
        THEN [NoOutcome EXCEPT !.phase = "align", !.raised = m.raised]
        ELSE IF i.raised # "none"
        THEN [NoOutcome EXCEPT !.phase = "init", !.raised = i.raised, !.refit_dict = i.refit_dict]
        ELSE IF b.raised # "none"
        THEN [built EXCEPT !.phase = "build", !.raised = b.raised]
        ELSE IF dump
        THEN [built EXCEPT !.phase = "dump",
                           !.saved = [called |-> TRUE, tensors |-> b.refit_dict]]
        ELSE ApplyAndCommit(weights, b.refit_dict, FALSE, commit_ok, built)

\* Engine.refit_from_dump(dump_refit_path): the path is given by the dict it loads
refit_from_dump(weights, dump_tensors, commit_ok) ==
    ApplyAndCommit(weights, dump_tensors, FALSE, commit_ok,
                   [NoOutcome EXCEPT !.refit_dict = dump_tensors])

\* Engine.refit_from_dict(refit_dict)
refit_from_dict(weights, d, commit_ok) ==
    ApplyAndCommit(weights, d, TRUE, commit_ok, [NoOutcome EXCEPT !.refit_dict = d])

NoArgs == [nodes |-> <<>>, refit_nodes |-> <<>>, dump |-> FALSE]

RefitIdle ==
    /\ all_weights = <<>>
    /\ refit_call = "none"
    /\ refit_args = NoArgs
    /\ refit_phase = "none"
    /\ refit_raised = "none"
    /\ refit_dict = <<>>
    /\ logged = <<>>
    /\ saved = NoSave
    /\ pushed = <<>>
    /\ warned = <<>>
    /\ committed = "no"

(***************************************************************************)
(* Engine: load, activate, allocate_buffers, infer.  A shape is kept as    *)
(* one dimension, a dynamic one being -1 in the engine.                    *)
(***************************************************************************)
\* __init__: self.engine = None, self.context = None, self.tensors = OrderedDict()
NoEngine == [loaded |-> FALSE, bindings |-> <<>>]
NoContext == [created |-> FALSE, device_memory |-> FALSE, shapes |-> <<>>, addresses |-> {}]

NoLifeOutcome(self) ==
    [engine |-> self.engine, context |-> self.context, tensors |-> self.tensors,
     raised |-> "none", dispatched |-> FALSE]

\* load(): engine_from_bytes(bytes_from_path(self.engine_path)); readable tells
\* whether the file at engine_path can be read
load(self, file, readable) ==
    IF ~readable THEN [NoLifeOutcome(self) EXCEPT !.raised = "FileNotFoundError"]
    ELSE [NoLifeOutcome(self) EXCEPT !.engine = [loaded |-> TRUE, bindings |-> file]]

\* activate(reuse_device_memory): both branches call a method of self.engine
activate(self, reuse_device_memory) ==
    IF ~self.engine.loaded THEN [NoLifeOutcome(self) EXCEPT !.raised = "AttributeError"]
    ELSE [NoLifeOutcome(self) EXCEPT
            !.context = [created |-> TRUE, device_memory |-> ~reuse_device_memory,
                         shapes |-> [i \in 1..Len(self.engine.bindings) |->
                                        self.engine.bindings[i].shape],
                         addresses |-> {}]]

\* allocate_buffers, lines 312-323: the loop over range(num_io_tensors) from idx on;
\* fail_at is the index at which torch.empty(...).to(device) raises, 0 for none;
\* st is the outcome so far
RECURSIVE AllocateLoop(_, _, _, _, _)
AllocateLoop(bindings, idx, shape_dict, fail_at, st) ==
    IF idx > Len(bindings) THEN st
    ELSE
    LET binding == bindings[idx].name
        given == shape_dict # <<>> /\ DictHas(shape_dict, binding)
        shape == IF given THEN DictGet(shape_dict, binding).shape
                 ELSE Abs(st.context.shapes[idx])
        ctx == IF bindings[idx].is_input
               THEN [st.context EXCEPT !.shapes[idx] = shape]
               ELSE st.context
    IN  IF ~given /\ ~st.context.created THEN [st EXCEPT !.raised = "AttributeError"]
        ELSE IF bindings[idx].is_input /\ ~st.context.created
        THEN [st EXCEPT !.raised = "AttributeError"]
        ELSE IF fail_at = idx THEN [st EXCEPT !.context = ctx, !.raised = "RuntimeError"]
        ELSE AllocateLoop(bindings, idx + 1, shape_dict, fail_at,
                          [st EXCEPT !.context = ctx,
                                     !.tensors = DictSet(@, binding,
                                                         [shape |-> shape, data |-> "empty"])])

\* allocate_buffers(shape_dict, device)
allocate_buffers(self, shape_dict, fail_at) ==
    IF ~self.engine.loaded THEN [NoLifeOutcome(self) EXCEPT !.raised = "AttributeError"]
    ELSE AllocateLoop(self.engine.bindings, 1, shape_dict, fail_at, NoLifeOutcome(self))

\* infer, lines 328-329: self.tensors[name].copy_(buf) for the items of feed_dict from
\* n on; copy_ broadcasts a buffer of size 1 and refuses any other size but its own
RECURSIVE CopyLoop(_, _, _)
CopyLoop(feed_dict, n, st) ==
    IF n > Len(feed_dict) THEN st
    ELSE LET name == feed_dict[n].k
             buf == feed_dict[n].v
         IN  IF ~DictHas(st.tensors, name) THEN [st EXCEPT !.raised = "KeyError"]
             ELSE IF buf.shape # DictGet(st.tensors, name).shape /\ buf.shape # 1
             THEN [st EXCEPT !.raised = "RuntimeError"]
             ELSE CopyLoop(feed_dict, n + 1,
                           [st EXCEPT !.tensors = DictSet(@, name,
                                [DictGet(st.tensors, name) EXCEPT !.data = buf.data])])

\* infer(feed_dict, stream); exec_ok is what execute_async_v3 would answer
infer(self, feed_dict, exec_ok) ==
    LET c == CopyLoop(feed_dict, 1, NoLifeOutcome(self))
        names == { c.tensors[n].k : n \in 1..Len(c.tensors) }
    IN  IF c.raised # "none" THEN c
        ELSE IF ~c.context.created THEN [c EXCEPT !.raised = "AttributeError"]
        ELSE [c EXCEPT !.context.addresses = names,
                       !.dispatched = TRUE,
                       !.raised = IF exec_ok THEN "none" ELSE "ValueError"]

LifeIdle ==
    /\ engine_file = <<>>
    /\ engine = NoEngine
    /\ context = NoContext
    /\ tensors = <<>>
    /\ life_call = "none"
    /\ life_raised = "none"
    /\ life_done = {}
    /\ dispatched = FALSE

(***************************************************************************)
(* ModelManager: the registry                                              *)
(***************************************************************************)
\* f"cc{cc_major}{cc_minor}" of the device the process runs on
DeviceCC == "cc86"

\* the profile of the spec's scenarios, and a static one
ExampleProfile ==
    [sample |-> << <<1, 4, 64, 64>>, <<2, 4, 64, 64>>, <<4, 4, 96, 96>> >>,
     encoder_hidden_states |-> << <<1, 77, 768>>, <<2, 77, 768>>, <<4, 154, 768>> >>]

StaticProfile ==
    [sample |-> << <<2, 4, 64, 64>>, <<2, 4, 64, 64>>, <<2, 4, 64, 64>> >>,
     encoder_hidden_states |-> << <<2, 77, 768>>, <<2, 77, 768>>, <<2, 77, 768>> >>]

\* ModelConfig(profile, static_shapes, fp32, baseline_model, inpaint, refit, lora, vram,
\* unet_hidden_dim); fp32, baseline_model, inpaint, vram and unet_hidden_dim are stored
\* and never read by the code modelled here, and are left out
ModelConfig(profile, static_shapes, refit_flag, lora) ==
    [class |-> "ModelConfig", profile |-> profile, static_shapes |-> static_shapes,
     refit |-> refit_flag, lora |-> lora]

\* ModelConfigEncoder.default: o.__dict__
ModelConfigEncoder(o) == [f \in DOMAIN o \ {"class"} |-> o[f]]

\* ModelConfig(**configs[i]["config"])
ModelConfigFromDict(d) ==
    ModelConfig(d.profile, d.static_shapes, d.refit, d.lora)

\* json.dump(self.all_models, cls=ModelConfigEncoder): what write_json leaves in the file
write_json(am) ==
    [i \in 1..Len(am) |->
        [k |-> am[i].k,
         v |-> [j \in 1..Len(am[i].v) |->
                  [k |-> am[i].v[j].k,
                   v |-> [n \in 1..Len(am[i].v[j].v) |->
                            [am[i].v[j].v[n] EXCEPT !.config = ModelConfigEncoder(@)]]]]]]

\* read_json(encode_config=True)
read_json(file) ==
    [i \in 1..Len(file) |->
        [k |-> file[i].k,
         v |-> [j \in 1..Len(file[i].v) |->
                  [k |-> file[i].v[j].k,
                   v |-> [n \in 1..Len(file[i].v[j].v) |->
                            [file[i].v[j].v[n] EXCEPT !.config = ModelConfigFromDict(@)]]]]]]

\* get_trt_path: "_".join([model_name, self.cc]) + ".trt"; the profile and static_shape
\* only feed profile_hash, which the file name no longer uses
get_trt_path(self_cc, model_name, profile, static_shape) ==
    <<model_name, "_", self_cc, ".trt">>

\* trt_file.endswith(".trt")
EndsWithTrt(f) == Len(f) > 0 /\ f[Len(f)] = ".trt"

\* update, line 61: the .trt files of TRT_MODEL_DIR
TrtEngines(dir) == {f \in dir : EndsWithTrt(f)}

\* update, lines 66-73: the entries whose file exists, keyed by filepath, as a list
RECURSIVE TmpConfigList(_, _, _, _)
TmpConfigList(models, n, trt_engines, tmp) ==
    IF n > Len(models) THEN [i \in 1..Len(tmp) |-> tmp[i].v]
    ELSE IF models[n].filepath \notin trt_engines
         THEN TmpConfigList(models, n + 1, trt_engines, tmp)
         ELSE TmpConfigList(models, n + 1, trt_engines,
                            DictSet(tmp, models[n].filepath, models[n]))

\* update, lines 65-77: the loop over base_models.items() from position j on.
\* base_models is the very dict self.all_models[cc] (the copy of line 63 is shallow),
\* so the pop of line 75 changes the size of the dict being iterated and the
\* iterator's next step raises RuntimeError.
RECURSIVE UpdateBaseModels(_, _, _)
UpdateBaseModels(base_models, j, trt_engines) ==
    IF j > Len(base_models) THEN [d |-> base_models, raised |-> "none"]
    ELSE
    LET base_model == base_models[j].k
        models == base_models[j].v
        tmp_config_list == TmpConfigList(models, 1, trt_engines, <<>>)
    IN  IF Len(tmp_config_list) = 0
        THEN [d |-> DictPop(base_models, base_model), raised |-> "RuntimeError"]
        ELSE UpdateBaseModels(DictSet(base_models, base_model, models), j + 1, trt_engines)

\* update, lines 63-77: the loop over tmp_all_models.items() from position i on
RECURSIVE UpdateAll(_, _, _)
UpdateAll(am, i, trt_engines) ==
    IF i > Len(am) THEN [all_models |-> am, raised |-> "none"]
    ELSE
    LET r == UpdateBaseModels(am[i].v, 1, trt_engines)
        am1 == [am EXCEPT ![i].v = r.d]
    IN  IF r.raised # "none"
        THEN [all_models |-> am1, raised |-> r.raised]
        ELSE UpdateAll(am1, i + 1, trt_engines)

\* ModelManager.update(): the registry, the file and the exception it leaves
update(am, file, dir) ==
    LET r == UpdateAll(am, 1, TrtEngines(dir))
    IN  [all_models |-> r.all_models,
         model_file |-> IF r.raised = "none" THEN write_json(r.all_models) ELSE file,
         raised |-> r.raised]

\* ModelManager.available_models()
available_models(am, self_cc) == DictGetOrEmpty(am, self_cc)

\* get_valid_models, lines 144-148: the loop over models[base_model] from position n on
RECURSIVE ValidModelsLoop(_, _, _, _, _)
ValidModelsLoop(models, n, q, valid_models, distances) ==
    IF n > Len(models)
    THEN [raised |-> "none", valid_models |-> valid_models, distances |-> distances]
    ELSE
    LET r == is_compatible(models[n].config, q.width, q.height, q.batch_size, q.max_embedding)
    IN  IF r.raised # "none"
        THEN [raised |-> r.raised, valid_models |-> <<>>, distances |-> <<>>]
        ELSE IF r.valid
        THEN ValidModelsLoop(models, n + 1, q, Append(valid_models, models[n]),
                             Append(distances, r.distance_x4))
        ELSE ValidModelsLoop(models, n + 1, q, valid_models, distances)

\* ModelManager.get_valid_models(base_model, width, height, batch_size, max_embedding)
get_valid_models(am, self_cc, base_model, q) ==
    LET models == available_models(am, self_cc)
    IN  IF ~DictHas(models, base_model)
        THEN [raised |-> "KeyError", valid_models |-> <<>>, distances |-> <<>>]
        ELSE ValidModelsLoop(DictGet(models, base_model), 1, q, <<>>, <<>>)

\* get_valid_models_from_dict, lines 133-137
RECURSIVE ValidModelsFromDictLoop(_, _, _, _, _)
ValidModelsFromDictLoop(models, n, feed_dict, valid_models, distances) ==
    IF n > Len(models)
    THEN [raised |-> "none", valid_models |-> valid_models, distances |-> distances]
    ELSE
    LET r == is_compatible_from_dict(models[n].config, feed_dict)
    IN  IF r.raised # "none"
        THEN [raised |-> r.raised, valid_models |-> <<>>, distances |-> <<>>]
        ELSE IF r.valid
        THEN ValidModelsFromDictLoop(models, n + 1, feed_dict, Append(valid_models, models[n]),
                                     Append(distances, r.distance_x4))
        ELSE ValidModelsFromDictLoop(models, n + 1, feed_dict, valid_models, distances)

\* ModelManager.get_valid_models_from_dict(base_model, feed_dict)
get_valid_models_from_dict(am, self_cc, base_model, feed_dict) ==
    LET models == available_models(am, self_cc)
    IN  IF ~DictHas(models, base_model)
        THEN [raised |-> "KeyError", valid_models |-> <<>>, distances |-> <<>>]
        ELSE ValidModelsFromDictLoop(DictGet(models, base_model), 1, feed_dict, <<>>, <<>>)

\* add_entry, lines 82-91: the registry after the append
add_entry(am, self_cc, model_name, profile, static_shapes, refit_flag, lora) ==
    LET cfg == ModelConfig(profile, static_shapes, refit_flag, lora)
        trt_name == get_trt_path(self_cc, model_name, profile, static_shapes)
        am1 == IF ~DictHas(am, self_cc) THEN DictSet(am, self_cc, <<>>) ELSE am
        inner == DictGet(am1, self_cc)
        inner1 == IF ~DictHas(inner, model_name) THEN DictSet(inner, model_name, <<>>) ELSE inner
        entry == [filepath |-> trt_name, config |-> cfg]
    IN  DictSet(am1, self_cc, DictSet(inner1, model_name, Append(DictGet(inner1, model_name), entry)))

\* add_lora_entry, lines 96-97: self.all_models[self.cc] must exist
add_lora_entry(am, self_cc, base_model, lora_name, trt_lora_path) ==
    IF ~DictHas(am, self_cc)
    THEN [all_models |-> am, raised |-> "KeyError"]
    ELSE LET cfg == ModelConfig(LoraProfile, FALSE, TRUE, TRUE)
             entry == [filepath |-> trt_lora_path, base_model |-> base_model, config |-> cfg]
         IN  [all_models |-> DictSet(am, self_cc, DictSet(DictGet(am, self_cc), lora_name, <<entry>>)),
              raised |-> "none"]

(***************************************************************************)
(* The registry as a state machine                                         *)
(***************************************************************************)
ModelNames == {"m1"}
LoraNames == {"l1"}

\* engine files: the name add_entry derives for m1, a second engine of m1 registered
\* under a name of its own (a registry file may list any file name: section 6 of the
\* spec gives the format), and a lora engine
FileA == get_trt_path(DeviceCC, "m1", ExampleProfile, FALSE)
FileB == <<"m1", "_", "static", "_", DeviceCC, ".trt">>
FileL == <<"l1", ".trt">>
AllFiles == {FileA, FileB, FileL}

\* what callers pass to add_entry as (profile, static_shapes)
EntryConfigs == {<<ExampleProfile, FALSE>>, <<StaticProfile, TRUE>>}

JsonEntry(f, pc) ==
    [filepath |-> f, config |-> ModelConfigEncoder(ModelConfig(pc[1], pc[2], FALSE, FALSE))]

JsonLoraEntry(f, base_model) ==
    [filepath |-> f, base_model |-> base_model,
     config |-> ModelConfigEncoder(ModelConfig(LoraProfile, FALSE, TRUE, TRUE))]

\* the registry files a process may find at start: well-formed, no file listed twice
M1Lists ==
    { <<JsonEntry(FileA, <<ExampleProfile, FALSE>>)>>,
      <<JsonEntry(FileA, <<ExampleProfile, FALSE>>), JsonEntry(FileB, <<StaticProfile, TRUE>>)>>,
      <<JsonEntry(FileB, <<StaticProfile, TRUE>>), JsonEntry(FileA, <<ExampleProfile, FALSE>>)>> }
L1Item == [k |-> "l1", v |-> <<JsonLoraEntry(FileL, "m1")>>]
DeviceSections ==
    {<<>>, <<L1Item>>}
    \cup { <<[k |-> "m1", v |-> l]>> : l \in M1Lists }
    \cup { <<[k |-> "m1", v |-> l], L1Item>> : l \in M1Lists }
    \cup { <<L1Item, [k |-> "m1", v |-> l]>> : l \in M1Lists }
StartFiles ==
    { IF sec = <<>> THEN <<>> ELSE <<[k |-> DeviceCC, v |-> sec]>> : sec \in DeviceSections }

\* scalar queries: the spec's scenarios 1 and 2
ExampleQuery == [width |-> 512, height |-> 512, batch_size |-> 1, max_embedding |-> 77]
Queries == {ExampleQuery, [ExampleQuery EXCEPT !.batch_size = 3]}
\* tensor queries
FeedDicts == { <<[k |-> "sample", v |-> <<2, 4, 64, 64>>]>> }

NoReturn == [valid_models |-> <<>>, distances |-> <<>>]
NoFile == [exists |-> FALSE, content |-> <<>>]
NoConfig == ModelConfig(LoraProfile, FALSE, FALSE, FALSE)
NoQuery == [form |-> "none"]
NoAnswer == [raised |-> "none", valid |-> FALSE, distance_x4 |-> 0]

MatchIdle == config = NoConfig /\ query = NoQuery /\ answer = NoAnswer

\* before the module is imported: some registry file or none, some engine files
RegInit ==
    /\ all_models = <<>>
    /\ model_file \in {NoFile} \cup {[exists |-> TRUE, content |-> c] : c \in StartFiles}
    /\ trt_dir \in SUBSET AllFiles
    /\ cc = "unset"
    /\ alive = FALSE
    /\ last_call = "none"
    /\ last_arg = ""
    /\ raised = "none"
    /\ returned = NoReturn
    /\ MatchIdle
    /\ RefitIdle
    /\ LifeIdle

\* modelmanager = ModelManager(): __init__ with update() at its end; when update raises,
\* the import fails and the process has no registry
Construct ==
    LET am0 == IF model_file.exists THEN read_json(model_file.content) ELSE <<>>
        r == update(am0, model_file, trt_dir)
    IN  /\ cc' = DeviceCC
        /\ all_models' = IF r.raised = "none" THEN r.all_models ELSE <<>>
        /\ model_file' = IF r.raised = "none"
                         THEN [exists |-> TRUE, content |-> r.model_file] ELSE model_file
        /\ alive' = (r.raised = "none")
        /\ last_call' = "__init__"
        /\ last_arg' = ""
        /\ raised' = r.raised
        /\ returned' = NoReturn
        /\ UNCHANGED <<trt_dir, match_vars, refit_vars, life_vars>>

\* modelmanager.update()
Update ==
    /\ alive
    /\ LET r == update(all_models, model_file.content, trt_dir)
       IN  /\ all_models' = r.all_models
           /\ model_file' = [exists |-> TRUE, content |-> r.model_file]
           /\ raised' = r.raised
    /\ last_call' = "update"
    /\ last_arg' = ""
    /\ returned' = NoReturn
    /\ UNCHANGED <<trt_dir, cc, alive, match_vars, refit_vars, life_vars>>

\* modelmanager.add_entry(model_name, profile, static_shapes, ...)
AddEntry(model_name, pc) ==
    /\ alive
    /\ Len(DictGetOrEmpty(available_models(all_models, cc), model_name)) < MaxEntries
    /\ all_models' = add_entry(all_models, cc, model_name, pc[1], pc[2], FALSE, FALSE)
    /\ model_file' = [exists |-> TRUE, content |-> write_json(all_models')]
    /\ last_call' = "add_entry"
    /\ last_arg' = model_name
    /\ raised' = "none"
    /\ returned' = NoReturn
    /\ UNCHANGED <<trt_dir, cc, alive, match_vars, refit_vars, life_vars>>

\* modelmanager.add_lora_entry(base_model, lora_name, trt_lora_path, ...)
AddLoraEntry(base_model, lora_name, trt_lora_path) ==
    /\ alive
    /\ LET r == add_lora_entry(all_models, cc, base_model, lora_name, trt_lora_path)
       IN  /\ all_models' = r.all_models
           /\ raised' = r.raised
           /\ model_file' = IF r.raised = "none"
                            THEN [exists |-> TRUE, content |-> write_json(r.all_models)]
                            ELSE model_file
    /\ last_call' = "add_lora_entry"
    /\ last_arg' = base_model
    /\ returned' = NoReturn
    /\ UNCHANGED <<trt_dir, cc, alive, match_vars, refit_vars, life_vars>>

\* modelmanager.get_valid_models(base_model, width, height, batch_size, max_embedding)
GetValidModels(base_model, q) ==
    /\ alive
    /\ LET r == get_valid_models(all_models, cc, base_model, q)
       IN  /\ raised' = r.raised
           /\ returned' = [valid_models |-> r.valid_models, distances |-> r.distances]
    /\ last_call' = "get_valid_models"
    /\ last_arg' = base_model
    /\ UNCHANGED <<all_models, model_file, trt_dir, cc, alive, match_vars, refit_vars, life_vars>>

\* modelmanager.get_valid_models_from_dict(base_model, feed_dict)
GetValidModelsFromDict(base_model, feed_dict) ==
    /\ alive
    /\ LET r == get_valid_models_from_dict(all_models, cc, base_model, feed_dict)
       IN  /\ raised' = r.raised
           /\ returned' = [valid_models |-> r.valid_models, distances |-> r.distances]
    /\ last_call' = "get_valid_models_from_dict"
    /\ last_arg' = base_model
    /\ UNCHANGED <<all_models, model_file, trt_dir, cc, alive, match_vars, refit_vars, life_vars>>

\* an engine file is written to TRT_MODEL_DIR (a build) or removed from it
FileCreated(f) ==
    /\ f \notin trt_dir
    /\ trt_dir' = trt_dir \cup {f}
    /\ last_call' = "os"
    /\ last_arg' = ""
    /\ raised' = "none"
    /\ returned' = NoReturn
    /\ UNCHANGED <<all_models, model_file, cc, alive, match_vars, refit_vars, life_vars>>

FileRemoved(f) ==
    /\ f \in trt_dir
    /\ trt_dir' = trt_dir \ {f}
    /\ last_call' = "os"
    /\ last_arg' = ""
    /\ raised' = "none"
    /\ returned' = NoReturn
    /\ UNCHANGED <<all_models, model_file, cc, alive, match_vars, refit_vars, life_vars>>

RegNext ==
    \/ Construct
    \/ Update
    \/ \E n \in ModelNames, pc \in EntryConfigs : AddEntry(n, pc)
    \/ \E l \in LoraNames : AddLoraEntry("m1", l, FileL)
    \/ \E b \in ModelNames \cup LoraNames, q \in Queries : GetValidModels(b, q)
    \/ \E b \in ModelNames \cup LoraNames, fd \in FeedDicts : GetValidModelsFromDict(b, fd)
    \/ \E f \in AllFiles : FileCreated(f)
    \/ \E f \in AllFiles : FileRemoved(f)

\* the registry of a process started on any registry file
SpecReg == RegInit /\ [][RegNext]_vars

\* the registry of a process started without a registry file
RegInitEmpty == RegInit /\ model_file = NoFile

SpecRegEmpty == RegInitEmpty /\ [][RegNext]_vars

(***************************************************************************)
(* Claims about the registry                                               *)
(***************************************************************************)
EntryOnDisk(e, dir) == e.filepath \in TrtEngines(dir)

\* a base model's list restricted to the entries whose file is on disk
PresentOnly(models, dir) == SelectSeq(models, LAMBDA e : EntryOnDisk(e, dir))

\* C1: after an update() that returned, the entry list of every base model still
\* registered is the list it had before the call restricted to the entries whose
\* filepath is on disk, in their order
C1_UpdateIsOrderPreservingFilter ==
    [][ (last_call' = "update" /\ raised' = "none") =>
          \A i \in 1..Len(all_models') : \A j \in 1..Len(all_models'[i].v) :
              LET key == all_models'[i].v[j].k
                  before == DictGet(DictGet(all_models, all_models'[i].k), key)
              IN  all_models'[i].v[j].v = PresentOnly(before, trt_dir) ]_vars

\* some base model of the registry has no entry whose file is on disk
SomeKeyAllMissing(am, dir) ==
    \E i \in 1..Len(am) : \E j \in 1..Len(am[i].v) : PresentOnly(am[i].v[j].v, dir) = <<>>

\* no base model is left without an entry on disk
NoKeyAllMissing(am, dir) == ~SomeKeyAllMissing(am, dir)

\* C2: an update() that finds base models none of whose entries is on disk removes
\* them, returns normally and persists the result
C2_UpdateRemovesEmptyKeysAndCompletes ==
    [][ (last_call' = "update" /\ SomeKeyAllMissing(all_models, trt_dir)) =>
          /\ raised' = "none"
          /\ NoKeyAllMissing(all_models', trt_dir)
          /\ model_file' = [exists |-> TRUE, content |-> write_json(all_models')] ]_vars

\* no list of the registry holds two entries with the same filepath
NoDuplicateFilepaths(am) ==
    \A i \in 1..Len(am) : \A j \in 1..Len(am[i].v) :
        LET models == am[i].v[j].v
        IN  \A m, n \in 1..Len(models) : m # n => models[m].filepath # models[n].filepath

\* C3: starting from an empty registry, no sequence of add_entry, add_lora_entry and
\* update calls leaves two entries with the same filepath in one base model's list
C3_NoDuplicateFilepaths == NoDuplicateFilepaths(all_models)

\* C4: get_valid_models and get_valid_models_from_dict on a base model with no entries
\* under the current tag return two empty lists and raise nothing
C4_AbsentBaseModelIsEmptyResult ==
    ( /\ last_call \in {"get_valid_models", "get_valid_models_from_dict"}
      /\ ~DictHas(available_models(all_models, cc), last_arg) )
    => (raised = "none" /\ returned = NoReturn)

(***************************************************************************)
(* The matcher as a state machine: one ModelConfig, one call               *)
(***************************************************************************)
\* (min, opt, max) with min <= opt <= max over 0..MaxDim
Triples == { t \in (0..MaxDim) \X (0..MaxDim) \X (0..MaxDim) : t[1] <= t[2] /\ t[2] <= t[3] }
\* the batch and embedding dimensions of the enumerated profiles
BatchTriples == { <<2, 2, 2>>, <<1, 2, 4>> }
EmbTriples == { <<77, 77, 77>>, <<77, 77, 154>> }

\* the profile with the given (min, opt, max) per dimension: sample is
\* [batch, channel, h, w], encoder_hidden_states is [batch, embedding, hidden]
ProfileOf(b, h, w, e) ==
    [sample |-> [i \in 1..3 |-> <<b[i], 4, h[i], w[i]>>],
     encoder_hidden_states |-> [i \in 1..3 |-> <<b[i], e[i], 768>>]]

EnumeratedProfiles ==
    { ProfileOf(b, h, w, e) : b \in BatchTriples, h \in Triples, w \in Triples, e \in EmbTriples }

MatchConfigs ==
    { ModelConfig(p, FALSE, FALSE, FALSE) : p \in EnumeratedProfiles \cup {ExampleProfile, StaticProfile} }
    \cup { ModelConfig(LoraProfile, FALSE, TRUE, TRUE) }

\* pixel sizes: for every latent size 0..MaxDim+1 the smallest and the largest
Pixels == { 8 * n + r : n \in 0..(MaxDim + 1), r \in {0, 7} }
ScalarQueries ==
    [width : Pixels, height : Pixels, batch_size : 0..3, max_embedding : {76, 77, 154, 155}]
    \cup Queries

\* feed_dicts: a sample tensor, an encoder_hidden_states tensor, both or none
SampleShapes == { <<b, 4, h, w>> : b \in {0, 2, 4, 6}, h \in 0..(MaxDim + 1), w \in 0..(MaxDim + 1) }
EmbShapes == { <<b, e, 768>> : b \in {0, 2, 4, 6}, e \in {76, 77, 154, 155} }
MatchFeedDicts ==
    { <<>> }
    \cup { <<[k |-> "sample", v |-> v]>> : v \in SampleShapes \cup {<<2, 4, 64, 64>>} }
    \cup { <<[k |-> "encoder_hidden_states", v |-> v]>> : v \in EmbShapes }
    \cup { <<[k |-> "sample", v |-> v], [k |-> "encoder_hidden_states", v |-> <<v[1], e, 768>>]>>
             : v \in SampleShapes, e \in {76, 77, 154, 155} }

RegIdle ==
    /\ all_models = <<>>
    /\ model_file = NoFile
    /\ trt_dir = {}
    /\ cc = "unset"
    /\ alive = FALSE
    /\ last_call = "none"
    /\ last_arg = ""
    /\ raised = "none"
    /\ returned = NoReturn

MatchInit ==
    /\ config \in MatchConfigs
    /\ query = NoQuery
    /\ answer = NoAnswer
    /\ RegIdle
    /\ RefitIdle
    /\ LifeIdle

\* config.is_compatible(width, height, batch_size, max_embedding)
IsCompatibleCall(q) ==
    /\ query = NoQuery
    /\ query' = [form |-> "scalar", width |-> q.width, height |-> q.height,
                 batch_size |-> q.batch_size, max_embedding |-> q.max_embedding]
    /\ answer' = is_compatible(config, q.width, q.height, q.batch_size, q.max_embedding)
    /\ UNCHANGED <<config, reg_vars, refit_vars, life_vars>>

\* config.is_compatible_from_dict(feed_dict)
IsCompatibleFromDictCall(fd) ==
    /\ query = NoQuery
    /\ query' = [form |-> "tensor", feed_dict |-> fd]
    /\ answer' = is_compatible_from_dict(config, fd)
    /\ UNCHANGED <<config, reg_vars, refit_vars, life_vars>>

MatchNext ==
    \/ /\ query = NoQuery
       /\ \E q \in ScalarQueries : IsCompatibleCall(q)
    \/ /\ query = NoQuery
       /\ \E fd \in MatchFeedDicts : IsCompatibleFromDictCall(fd)

SpecMatch == MatchInit /\ [][MatchNext]_vars

(***************************************************************************)
(* Claims about the matcher                                                *)
(***************************************************************************)
Accepted == query # NoQuery /\ answer.raised = "none" /\ answer.valid

\* the values is_compatible derives from its arguments
DerivedBatch == 2 * query.batch_size
DerivedH == query.height \div 8
DerivedW == query.width \div 8

\* the request equals opt on the dimensions the call compares with opt
EqualsOpt ==
    IF query.form = "scalar"
    THEN LET _opt == config.profile.sample[2]
         IN  DerivedBatch = _opt[1] /\ DerivedH = _opt[3] /\ DerivedW = _opt[4]
    ELSE \A n \in 1..Len(query.feed_dict) :
            query.feed_dict[n].v = config.profile[query.feed_dict[n].k][2]

\* the request is at max on height and width (scalar form), at min and at max on every
\* dimension (tensor form)
AtDeclaredBounds ==
    IF query.form = "scalar"
    THEN LET _max == config.profile.sample[3]
         IN  DerivedH = _max[3] /\ DerivedW = _max[4]
    ELSE \A n \in 1..Len(query.feed_dict) :
            /\ query.feed_dict[n].v = config.profile[query.feed_dict[n].k][1]
            /\ query.feed_dict[n].v = config.profile[query.feed_dict[n].k][3]

ExampleAsked ==
    /\ config.profile = ExampleProfile
    /\ query = [form |-> "scalar", width |-> 512, height |-> 512,
                batch_size |-> 1, max_embedding |-> 77]

\* C5 as claimed: an accepted request has distance 0 iff it equals opt on every compared
\* dimension, and the example profile queried with 512x512, batch 1, 77 tokens is
\* accepted with distance 0
C5_DistanceZeroIffEqualsOpt ==
    /\ Accepted => (answer.distance_x4 = 0 <=> EqualsOpt)
    /\ ExampleAsked => (Accepted /\ answer.distance_x4 = 0)

\* C5 as amended: an accepted request has distance 0 iff it equals opt on every compared
\* dimension and also max on height and width (scalar form), min and max on every
\* dimension (tensor form); the example is accepted with distance 32
C5_DistanceZeroIffEqualsOptAtBounds ==
    /\ Accepted => (answer.distance_x4 = 0 <=> (EqualsOpt /\ AtDeclaredBounds))
    /\ ExampleAsked => (Accepted /\ answer.distance_x4 = 4 * 32)

\* the example request is answered: accepted, at opt, and its distance is not 0
C5_Witness == ExampleAsked /\ Accepted /\ EqualsOpt /\ answer.distance_x4 = 128

WithinBounds ==
    LET _min == config.profile.sample[1]
        _max == config.profile.sample[3]
        _min_em == config.profile.encoder_hidden_states[1]
        _max_em == config.profile.encoder_hidden_states[3]
    IN  /\ _min[1] <= DerivedBatch /\ DerivedBatch <= _max[1]
        /\ _min[3] <= DerivedH /\ DerivedH <= _max[3]
        /\ _min[4] <= DerivedW /\ DerivedW <= _max[4]
        /\ _min_em[2] <= query.max_embedding /\ query.max_embedding <= _max_em[2]

\* C6: is_compatible accepts exactly when 2*batch_size, height div 8, width div 8 and
\* max_embedding lie within [min, max], bounds included; batch_size 3 against the
\* example profile (max[0] = 4) is rejected
C6_ScalarAcceptanceInclusive ==
    /\ (query.form = "scalar" /\ answer.raised = "none") => (answer.valid <=> WithinBounds)
    /\ (config.profile = ExampleProfile /\ query.form = "scalar" /\ query.batch_size = 3)
          => (answer.raised = "none" /\ ~answer.valid)

\* accepted with the batch at max, the height at max and the width at min of a profile
\* with min < max
C6_Witness ==
    /\ query.form = "scalar" /\ Accepted
    /\ LET _min == config.profile.sample[1]
           _max == config.profile.sample[3]
       IN  /\ _min[1] < _max[1] /\ DerivedBatch = _max[1]
           /\ _min[3] < _max[3] /\ DerivedH = _max[3]
           /\ _min[4] < _max[4] /\ DerivedW = _min[4]
           /\ query.max_embedding = config.profile.encoder_hidden_states[3][2]

(***************************************************************************)
(* Refit as a state machine: one engine, one call                          *)
(***************************************************************************)
F1 == [dtype |-> "float32", ndim |-> 1, data |-> 1]
F2 == [dtype |-> "float32", ndim |-> 1, data |-> 2]
I1 == [dtype |-> "int64", ndim |-> 0, data |-> 1]

Variable(name) == [name |-> name, const |-> FALSE, values |-> None]
Constant(name, values) == [name |-> name, const |-> TRUE, values |-> values]

\* the node at position i of a graph whose tensor and node names start with pre: a
\* Constant node of a weight, a Constant node of an int64 scalar, a Conv with constant
\* kernel and bias, an Add with an initializer
NodeAt(pre, shape, i) ==
    CASE shape.kind = "constant" ->
           [op |-> "Constant", name |-> pre \o <<"Constant_w">>, inputs |-> <<>>,
            outputs |-> <<Constant(pre \o <<"w">>, shape.values)>>]
      [] shape.kind = "scalar" ->
           [op |-> "Constant", name |-> pre \o <<"Constant_s">>, inputs |-> <<>>,
            outputs |-> <<Constant(pre \o <<"s">>, I1)>>]
      [] shape.kind = "conv" ->
           [op |-> "Conv", name |-> pre \o <<"conv">>,
            inputs |-> <<Variable(pre \o <<"x">>),
                         Constant(pre \o <<"conv.weight">>, shape.values),
                         Constant(pre \o <<"conv.bias">>, F1)>>,
            outputs |-> <<Variable(pre \o <<"t", ToString(i)>>)>>]
      [] OTHER ->
           [op |-> "Add", name |-> pre \o <<"add">>,
            inputs |-> <<Variable(pre \o <<"x">>), Constant(pre \o <<"a">>, F1)>>,
            outputs |-> <<Variable(pre \o <<"t", ToString(i)>>)>>]

GraphOf(pre, shapes) == [i \in 1..Len(shapes) |-> NodeAt(pre, shapes[i], i)]

\* no tensor is the output of two nodes (ONNX graphs are in SSA form); node names
\* need not differ
SingleAssignment(shapes) ==
    \A i, j \in 1..Len(shapes) :
        (i # j /\ shapes[i].kind = shapes[j].kind) => shapes[i].kind \in {"conv", "add"}

ShapeLists(shapes) ==
    { l \in UNION { [1..n -> shapes] : n \in 0..MaxNodes } : SingleAssignment(l) }

OriginalShapes ==
    { [kind |-> k, values |-> F1] : k \in {"constant", "scalar", "conv", "add"} }
RefitShapes ==
    OriginalShapes \cup { [kind |-> k, values |-> F2] : k \in {"constant", "conv"} }

\* the original graphs; the refit graphs, exported with the same tensor names or with
\* names of their own
OriginalGraphs == { GraphOf(<<>>, l) : l \in ShapeLists(OriginalShapes) }
RefitGraphs == { GraphOf(pre, l) : pre \in {<<>>, <<"refit.">>}, l \in ShapeLists(RefitShapes) }

Weight(layer_name, role) == [layer_name |-> layer_name, role |-> role]

\* what refitter.get_all() may answer: every weight of the graphs above and a Trilu
\* constant; two of them; a Conv kernel and a constant whose name is the kernel's
\* canonical name
EngineWeights ==
    { << Weight(<<"w">>, "CONSTANT"), Weight(<<"conv">>, "KERNEL"), Weight(<<"conv">>, "BIAS"),
         Weight(<<"a">>, "CONSTANT"), Weight(<<"s">>, "CONSTANT"),
         Weight(<<"onnx::Trilu", "_0">>, "CONSTANT") >>,
      << Weight(<<"w">>, "CONSTANT"), Weight(<<"conv">>, "KERNEL") >>,
      << Weight(<<"conv">>, "KERNEL"), Weight(<<"conv", "_TRTKERNEL">>, "CONSTANT") >> }

\* weight-update sets as a dump file holds them (arrays only)
DumpFiles ==
    { <<>>,
      << [k |-> <<"w">>, v |-> F2] >>,
      << [k |-> <<"w">>, v |-> F2], [k |-> <<"conv", "_TRTKERNEL">>, v |-> F2] >> }
\* weight-update sets as a caller of refit_from_dict may hold them
RefitDicts ==
    DumpFiles \cup { << [k |-> <<"w">>, v |-> None], [k |-> <<"conv", "_TRTKERNEL">>, v |-> F2] >> }

RefitInit ==
    /\ all_weights \in EngineWeights
    /\ refit_call = "none"
    /\ refit_args = NoArgs
    /\ refit_phase = "none"
    /\ refit_raised = "none"
    /\ refit_dict = <<>>
    /\ logged = <<>>
    /\ saved = NoSave
    /\ pushed = <<>>
    /\ warned = <<>>
    /\ committed = "no"
    /\ RegIdle
    /\ MatchIdle
    /\ LifeIdle

\* the variables a call leaves, from its outcome
Outcome(out) ==
    /\ refit_phase' = out.phase
    /\ refit_raised' = out.raised
    /\ refit_dict' = out.refit_dict
    /\ logged' = out.logged
    /\ saved' = out.saved
    /\ pushed' = out.pushed
    /\ warned' = out.warned
    /\ committed' = out.committed

\* engine.refit(onnx_path, onnx_refit_path, dump_refit_path).  A call works on a
\* Refitter of its own and reads nothing an earlier call left: one call per behaviour
\* shows every call.
Refit(nodes, refit_nodes, dump, commit_ok) ==
    /\ refit_call = "none"
    /\ refit_call' = "refit"
    /\ refit_args' = [nodes |-> nodes, refit_nodes |-> refit_nodes, dump |-> dump]
    /\ Outcome(refit(all_weights, nodes, refit_nodes, dump, commit_ok))
    /\ UNCHANGED <<all_weights, reg_vars, match_vars, life_vars>>

\* engine.refit_from_dump(dump_refit_path)
RefitFromDump(dump_tensors, commit_ok) ==
    /\ refit_call = "none"
    /\ refit_call' = "refit_from_dump"
    /\ refit_args' = NoArgs
    /\ Outcome(refit_from_dump(all_weights, dump_tensors, commit_ok))
    /\ UNCHANGED <<all_weights, reg_vars, match_vars, life_vars>>

\* engine.refit_from_dict(refit_dict)
RefitFromDict(d, commit_ok) ==
    /\ refit_call = "none"
    /\ refit_call' = "refit_from_dict"
    /\ refit_args' = NoArgs
    /\ Outcome(refit_from_dict(all_weights, d, commit_ok))
    /\ UNCHANGED <<all_weights, reg_vars, match_vars, life_vars>>

RefitNext ==
    \/ /\ refit_call = "none"
       /\ \E g \in OriginalGraphs, r \in RefitGraphs, dump \in BOOLEAN, ok \in BOOLEAN :
             Refit(g, r, dump, ok)
    \/ /\ refit_call = "none"
       /\ \E d \in DumpFiles, ok \in BOOLEAN : RefitFromDump(d, ok)
    \/ /\ refit_call = "none"
       /\ \E d \in RefitDicts, ok \in BOOLEAN : RefitFromDict(d, ok)

SpecRefit == RefitInit /\ [][RefitNext]_vars

(***************************************************************************)
(* Claims about Engine.refit, refit_from_dump and refit_from_dict          *)
(***************************************************************************)
\* a second write to a name that holds a value happened during the build: add_to_map
\* raised in a try block (logged) or in the loop over the inputs of another node
SecondWrite ==
    \/ logged # <<>>
    \/ refit_phase = "build" /\ refit_raised = "AssertionError"

NothingApplied == saved = NoSave /\ pushed = <<>> /\ committed = "no"

\* C7: in a call of refit, a second write to a canonical name that already holds a
\* value aborts the build, whatever the kind of node it comes from: the call ends in
\* the build with an exception, nothing is dumped and nothing is pushed or committed.
C7_SecondWriteAbortsBuild ==
    (refit_call = "refit" /\ SecondWrite)
        => (refit_phase = "build" /\ refit_raised # "none" /\ NothingApplied)

\* the indices both graphs of the call have
SharedIndices ==
    { i \in 1..Len(refit_args.nodes) : i <= Len(refit_args.refit_nodes) }

OpDiffers == \E i \in SharedIndices : refit_args.nodes[i].op # refit_args.refit_nodes[i].op

AbortedInAlignment ==
    /\ refit_phase = "align"
    /\ refit_raised \in {"AssertionError", "IndexError"}
    /\ NothingApplied

DetectedMisalignment ==
    Len(refit_args.nodes) > Len(refit_args.refit_nodes) \/ OpDiffers

Valueless(w) ==
    /\ ~StartsWithTrilu(w.layer_name)
    /\ LET custom_name == change_trt_layer_name(w.layer_name, w.role)
       IN  ~DictHas(refit_dict, custom_name) \/ DictGet(refit_dict, custom_name) = None

WasPushed(w) ==
    \E n \in 1..Len(pushed) : pushed[n].layer_name = w.layer_name /\ pushed[n].role = w.role

\* C9: in each of the three calls, once the loop over the engine's pairs is reached, a
\* pair whose canonical name has no value is passed over: set_weights is not called
\* for it, every other pair that is not skipped is still pushed, and the commit is
\* attempted.
C9_MissingValueIsNotFatal ==
    (/\ refit_call # "none"
     /\ refit_phase \in {"apply", "commit"}
     /\ \E n \in 1..Len(all_weights) : Valueless(all_weights[n]))
        => /\ refit_phase = "commit"
           /\ committed # "no"
           /\ \A n \in 1..Len(all_weights) :
                 LET w == all_weights[n]
                 IN  IF Valueless(w) THEN ~WasPushed(w)
                     ELSE StartsWithTrilu(w.layer_name) \/ WasPushed(w)

\* the places of a node where a constant tensor with weights sits: the output of a
\* Constant node (1), the kernel (2) and the bias (3) of a Conv, the initializers
\* among the inputs of any other node
SlotIdx(node) ==
    IF node.op = "Constant" THEN {1}
    ELSE IF node.op = "Conv" THEN {j \in {2, 3} : node.inputs[j].const}
    ELSE {j \in 1..Len(node.inputs) : node.inputs[j].const}

\* the canonical name the engine gives the weight at place j of a node
SlotName(node, j) ==
    IF node.op = "Constant" THEN node.outputs[1].name
    ELSE IF node.op = "Conv"
    THEN node.name \o (IF j = 2 THEN <<"_TRTKERNEL">> ELSE <<"_TRTBIAS">>)
    ELSE node.inputs[j].name

SlotValues(node, j) ==
    IF node.op = "Constant" THEN node.outputs[1].values ELSE node.inputs[j].values

Slots(g) == { <<i, j>> \in (1..Len(g)) \X (1..3) : j \in SlotIdx(g[i]) }

\* same node count, same operator kind and the same constant places at every index
SameTopology(g, r) ==
    /\ Len(g) = Len(r)
    /\ \A i \in 1..Len(g) :
          /\ g[i].op = r[i].op
          /\ Len(g[i].inputs) = Len(r[i].inputs)
          /\ SlotIdx(g[i]) = SlotIdx(r[i])

\* the nodes and the tensors bear the same names in both graphs
SameNames(g, r) ==
    \A i \in 1..Len(g) :
        /\ g[i].name = r[i].name
        /\ \A j \in 1..Len(g[i].inputs) : g[i].inputs[j].name = r[i].inputs[j].name
        /\ \A j \in 1..Len(g[i].outputs) : g[i].outputs[j].name = r[i].outputs[j].name

\* the constants whose values are not the same in the two graphs
Changed(g, r) == { s \in Slots(g) : SlotValues(g[s[1]], s[2]) # SlotValues(r[s[1]], s[2]) }

\* the call was refit, on two graphs of the same topology of which one constant
\* changed its values, and the weight-update set was built to the end
OneConstantChanged ==
    /\ refit_call = "refit"
    /\ SameTopology(refit_args.nodes, refit_args.refit_nodes)
    /\ Cardinality(Changed(refit_args.nodes, refit_args.refit_nodes)) = 1
    /\ refit_phase \in {"dump", "apply", "commit"}

NamesWithValue == { refit_dict[n].k : n \in {m \in 1..Len(refit_dict) : refit_dict[m].v # None} }

\* C10: for two graphs of the same topology and the same names that differ in the
\* values of one constant the engine knows, the weight-update set refit builds holds
\* a value for the canonical name of the changed constant only, the refit graph's new
\* values, and every other name known to the engine is unset.
C10_OnlyChangedConstantSet ==
    LET g == refit_args.nodes
        r == refit_args.refit_nodes
        c == CHOOSE s \in Changed(g, r) : TRUE
    IN  (/\ OneConstantChanged
         /\ SameNames(g, r)
         /\ DictHas(refit_dict, SlotName(g[c[1]], c[2])))
            => /\ NamesWithValue = {SlotName(g[c[1]], c[2])}
               /\ DictGet(refit_dict, SlotName(g[c[1]], c[2])) = SlotValues(r[c[1]], c[2])

\* the first constant of the original graph, in node order, with the canonical name
FirstSlot(g, name) ==
    LET S == { s \in Slots(g) : SlotName(g[s[1]], s[2]) = name }
    IN  CHOOSE s \in S : \A t \in S : s[1] < t[1] \/ (s[1] = t[1] /\ s[2] <= t[2])

\* C10: for two graphs of the same topology of which one constant changed its values,
\* whether the refit graph bears the original's names or names of its own, a built
\* weight-update set has the engine's canonical names as its keys and holds a value
\* for the name of every constant of the graph, changed or not: the values the refit
\* graph has at the first constant of that name, as 32-bit when they are a
\* 0-dimensional int64.  The names no constant of the graph bears are unset.
C10_EveryMappedConstantSet ==
    LET g == refit_args.nodes
        r == refit_args.refit_nodes
    IN  OneConstantChanged =>
            /\ Len(refit_dict) = Len(all_weights)
            /\ \A n \in 1..Len(refit_dict) :
                  LET name == refit_dict[n].k
                  IN  /\ name = change_trt_layer_name(all_weights[n].layer_name,
                                                      all_weights[n].role)
                      /\ IF \E s \in Slots(g) : SlotName(g[s[1]], s[2]) = name
                         THEN LET f == FirstSlot(g, name)
                              IN  refit_dict[n].v = Narrow(SlotValues(r[f[1]], f[2]))
                         ELSE refit_dict[n].v = None

\* C10: a refit graph with names of its own, one changed constant, the set built to
\* the end, and more than the changed constant's name holding a value
C10_Witness ==
    /\ OneConstantChanged
    /\ ~SameNames(refit_args.nodes, refit_args.refit_nodes)
    /\ Cardinality(NamesWithValue) > 1
    /\ LET c == CHOOSE s \in Changed(refit_args.nodes, refit_args.refit_nodes) : TRUE
       IN  SlotName(refit_args.nodes[c[1]], c[2]) \in NamesWithValue

(***************************************************************************)
(* The Engine runtime as a state machine: one Engine(engine_path), any      *)
(* sequence of load, activate, allocate_buffers and infer                   *)
(***************************************************************************)
Binding(name, is_input, shape) == [name |-> name, is_input |-> is_input, shape |-> shape]

\* the engines engine_path may hold: inputs first, a shape fixed or dynamic
EngineFiles ==
    { << Binding("x", TRUE, -1), Binding("y", FALSE, -1) >>,
      << Binding("x", TRUE, 2), Binding("t", TRUE, -1), Binding("y", FALSE, 2) >> }

Shaped(shape) == [shape |-> shape]

\* shape_dict of allocate_buffers: None or empty, the inputs, every binding
ShapeDicts ==
    { <<>>,
      << [k |-> "x", v |-> Shaped(3)] >>,
      << [k |-> "x", v |-> Shaped(3)], [k |-> "t", v |-> Shaped(3)],
         [k |-> "y", v |-> Shaped(3)] >> }

Buf(shape, data) == [shape |-> shape, data |-> data]

\* feed_dict of infer: empty, one input, two inputs, a name the engine does not have
FeedsOfInfer ==
    { <<>>,
      << [k |-> "x", v |-> Buf(3, "fed")] >>,
      << [k |-> "x", v |-> Buf(1, "fed")], [k |-> "t", v |-> Buf(1, "fed")] >>,
      << [k |-> "z", v |-> Buf(1, "fed")] >> }

LifeInit ==
    /\ engine_file \in EngineFiles
    /\ engine = NoEngine
    /\ context = NoContext
    /\ tensors = <<>>
    /\ life_call = "none"
    /\ life_raised = "none"
    /\ life_done = {}
    /\ dispatched = FALSE
    /\ RegIdle
    /\ MatchIdle
    /\ RefitIdle

Self == [engine |-> engine, context |-> context, tensors |-> tensors]

\* the variables a call of the runtime leaves, from its outcome
LifeOutcome(out) ==
    /\ engine' = out.engine
    /\ context' = out.context
    /\ tensors' = out.tensors
    /\ life_raised' = out.raised
    /\ dispatched' = out.dispatched

Returned(call, out) == IF out.raised = "none" THEN life_done \cup {call} ELSE life_done

\* engine.load()
Load(readable) ==
    /\ life_call' = "load"
    /\ life_done' = Returned("load", load(Self, engine_file, readable))
    /\ LifeOutcome(load(Self, engine_file, readable))
    /\ UNCHANGED <<engine_file, reg_vars, match_vars, refit_vars>>

\* engine.activate(reuse_device_memory)
Activate(reuse_device_memory) ==
    /\ life_call' = "activate"
    /\ life_done' = Returned("activate", activate(Self, reuse_device_memory))
    /\ LifeOutcome(activate(Self, reuse_device_memory))
    /\ UNCHANGED <<engine_file, reg_vars, match_vars, refit_vars>>

\* engine.allocate_buffers(shape_dict)
AllocateBuffers(shape_dict, fail_at) ==
    /\ life_call' = "allocate_buffers"
    /\ life_done' = Returned("allocate_buffers", allocate_buffers(Self, shape_dict, fail_at))
    /\ LifeOutcome(allocate_buffers(Self, shape_dict, fail_at))
    /\ UNCHANGED <<engine_file, reg_vars, match_vars, refit_vars>>

\* engine.infer(feed_dict, stream)
Infer(feed_dict, exec_ok) ==
    /\ life_call' = "infer"
    /\ life_done' = Returned("infer", infer(Self, feed_dict, exec_ok))
    /\ LifeOutcome(infer(Self, feed_dict, exec_ok))
    /\ UNCHANGED <<engine_file, reg_vars, match_vars, refit_vars>>

LifeNext ==
    \/ \E readable \in BOOLEAN : Load(readable)
    \/ \E reuse_device_memory \in BOOLEAN : Activate(reuse_device_memory)
    \/ \E shape_dict \in ShapeDicts, fail_at \in 0..3 : AllocateBuffers(shape_dict, fail_at)
    \/ \E feed_dict \in FeedsOfInfer, exec_ok \in BOOLEAN : Infer(feed_dict, exec_ok)

SpecLife == LifeInit /\ [][LifeNext]_vars

(***************************************************************************)
(* Claims about the Engine runtime                                         *)
(***************************************************************************)
\* self.tensors holds a buffer for every io tensor of the engine at engine_path
BufferForEveryBinding ==
    \A i \in 1..Len(engine_file) : DictHas(tensors, engine_file[i].name)

\* C11: whatever the sequence of load, activate, allocate_buffers and infer calls and
\* whatever the feed_dict, an infer that reached execute_async_v3 on the context was
\* preceded by a load, an activate and an allocate_buffers that each returned, and
\* self.tensors holds a buffer for every input and output binding at that time.
C11_DispatchOnlyWhenReady ==
    (life_call = "infer" /\ dispatched)
        => /\ {"load", "activate", "allocate_buffers"} \subseteq life_done
           /\ BufferForEveryBinding

====
